---- MODULE Spec2Model ----
(***************************************************************************)
(* Model of src/src/api.ts (QQ Bot API client): the msg_seq tracker        *)
(* (msgSeqTracker, seqBaseTime, getNextMsgSeq) and the access-token cache  *)
(* (cachedToken, getAccessToken, clearTokenCache).                         *)
(*                                                                         *)
(* msgSeqTracker is a JavaScript Map: an insertion-ordered list of         *)
(* (key, value) entries.  It is modelled as a sequence of records, first   *)
(* inserted first.  The sweep thresholds of getNextMsgSeq (size > 1000,    *)
(* delete the first 500 keys) are scaled down to TRACKER_LIMIT and         *)
(* EVICT_COUNT so that sweeps happen inside the explored state space; the  *)
(* code of the sweep is otherwise translated as written.                   *)
(*                                                                         *)
(* apiRequest and the send operations built on it are modelled as a bag    *)
(* of operations in progress, each standing at one of the awaits of        *)
(* apiRequest (fetch, res.json) or between the upload and the send of an   *)
(* image operation.  SpecSeq explores getNextMsgSeq, SpecToken the token   *)
(* cache, SpecSend the four send operations, SpecImage the image           *)
(* operations.                                                             *)
(***************************************************************************)
EXTENDS Integers, Sequences, FiniteSets, Bags, TLC

\* ------------------------------------------------------------------ bounds
\* scaled `msgSeqTracker.size > 1000` (api.ts:80)
TRACKER_LIMIT == 3
\* scaled `i < 500` (api.ts:82)
EVICT_COUNT == 2
\* number of distinct msgId values the callers use
NumKeys == 5
\* number of getNextMsgSeq calls in one run
MaxCalls == 7
\* number of callers that can have a getAccessToken call in progress
NumCallers == 2
\* number of send operations that can be in progress at once
MaxInFlight == 2
\* number of reply sends in one run
MaxReplies == 4
\* an image operation starts while fewer than this many operations are in progress
MaxImages == 1

MsgIds == 1..NumKeys


Callers == 1..NumCallers

\* Date.now() readings (ms) at module load
StartupTimes == {1234567}

\* later Date.now() readings (ms): a load time plus one of these delays
ClockValues == {t0 + d : t0 \in StartupTimes, d \in {50000, 6850000, 6900000}}

\* ----------------------------------------------------------------- values
\* JavaScript `undefined`, for a number and for a string
Undefined == -1
NoString == "undefined"

\* JavaScript `null` (cachedToken)
Null == [isNull |-> TRUE]

\* no fetch has stored a credential since the last clearTokenCache
NoStore == [none |-> TRUE]

\* (appId, clientSecret) pairs callers pass to getAccessToken
Apps == {"appA", "appB"}

\* the access token the token endpoint issues for a pair
TokenOf(app) == IF app = "appA" THEN "tokA" ELSE "tokB"

\* bodies the token endpoint can answer with: { access_token?, expires_in? }
Tokens == {"tokA", "tokB"}
TokenResponses == [access_token : Tokens \cup {"", NoString}, expires_in : {Undefined, 0}]

\* ------------------------------------------------- values: send operations
\* the empty string passed as msgId
EmptyMsgId == 0

\* msgId arguments of the send operations: a message id, "" or none
MsgIdArgs == MsgIds \cup {EmptyMsgId, Undefined}

\* sendC2CMessage, sendGroupMessage, sendC2CMediaMessage, sendGroupMediaMessage
SendKinds == {"c2c", "group", "c2cMedia", "groupMedia"}
MediaKinds == {"c2cMedia", "groupMedia"}

\* sendC2CImageMessage, sendGroupImageMessage
ImageKinds == {"c2cImage", "groupImage"}

\* file_info strings the platform hands out, and the imageUrl callers pass
FileInfos == {"fiA"}
\* the msgId arguments of the image operations: a reply, the empty string, none
ImageMsgIdArgs == {1, EmptyMsgId, Undefined}
ImageUrl == "https://img"

\* parsed response bodies of the platform: null, or an object { message?, file_info? }
\* the bodies a send answers with
SendReplies == {Null, [message |-> NoString, file_info |-> NoString]}
ApiBodies == {Null} \cup [message : {NoString, "invalid param"}, file_info : {NoString} \cup FileInfos]

NoRequest == [none |-> TRUE]
NoCont == [none |-> TRUE]
NoUpload == [none |-> TRUE]
NoReply == [none |-> TRUE]

VARIABLES
    seqBaseTime,    \* const seqBaseTime (api.ts:67)
    msgSeqTracker,  \* const msgSeqTracker = new Map() (api.ts:66)
    now,            \* the clock read by Date.now()
    cachedToken,    \* let cachedToken (api.ts:13)
    pc,             \* caller -> where its getAccessToken call stands
    result,         \* caller -> the token its call returned
    fetches,        \* caller -> number of fetch(TOKEN_URL) requests its call issued
    startedAt,      \* caller -> clock reading when its call in flight started (0: none in flight)
    arg,            \* caller -> the (appId, clientSecret) pair of its call in flight
    stored,         \* the last credential a fetch stored since the last clearTokenCache
    sinceClear,     \* what happened since the last clearTokenCache
    \* -- history of the getNextMsgSeq calls made so far
    ncalls,         \* number of calls
    callsFor,       \* msgId -> number of calls made with it
    issued,         \* msgId -> set of values returned for it
    insertedAt,     \* msgId -> number of the call that inserted it (0: not in the table)
    evicted,        \* msgIds removed by a sweep and not called since
    sweeps,         \* number of calls that ran the sweep
    inserts,        \* number of calls that added a key to the table
    \* -- send operations
    ops,            \* bag of the send operations in progress: where each stands in its apiRequest call
    prevReply,      \* the latest send that carried a msg_id
    last            \* the last step: its arguments, result and the state before it

seqVars == <<msgSeqTracker, ncalls, callsFor, issued, insertedAt, evicted, sweeps, inserts>>

sendVars == <<ops, prevReply>>

tokVars == <<cachedToken, pc, result, fetches, startedAt, arg, stored, sinceClear>>

\* ------------------------------------------------------- Map operations
\* Map.prototype.has
MapHas(m, k) == \E i \in 1..Len(m) : m[i].key = k

\* Map.prototype.get: the value, or undefined
MapGet(m, k) ==
    IF MapHas(m, k) THEN (CHOOSE e \in {m[i] : i \in 1..Len(m)} : e.key = k).val
    ELSE Undefined

\* a set that moves an existing key to the end (access order)
MapSetMoveToEnd(m, k, v) == Append(SelectSeq(m, LAMBDA e : e.key # k), [key |-> k, val |-> v])

\* Map.prototype.set: an existing key keeps its position, a new key goes last
MapSet(m, k, v) ==
    IF MapHas(m, k)
    THEN [i \in 1..Len(m) |-> IF m[i].key = k THEN [key |-> k, val |-> v] ELSE m[i]]
    ELSE Append(m, [key |-> k, val |-> v])

\* Map.prototype.delete
MapDelete(m, k) == SelectSeq(m, LAMBDA e : e.key # k)

\* Array.from(map.keys()): the keys in insertion order
MapKeys(m) == [i \in 1..Len(m) |-> m[i].key]

\* Map.prototype.size
MapSize(m) == Len(m)

\* x ?? d
Coalesce(x, d) == IF x = Undefined THEN d ELSE x

\* Math.floor(Date.now() / 1000) % 100000000
SeqBase(ms) == (ms \div 1000) % 100000000

\* ---------------------------------------------------------- getNextMsgSeq
\* a loop that runs once more (i <= 500)
RECURSIVE EvictLoopOneMore(_, _, _)
EvictLoopOneMore(m, keys, i) ==
    IF i > EVICT_COUNT + 1 THEN m
    ELSE EvictLoopOneMore(IF i <= Len(keys) THEN MapDelete(m, keys[i]) ELSE m, keys, i + 1)

\* for (let i = 0; i < 500; i++) msgSeqTracker.delete(keys[i]);
\* i counts from 1 here; keys[i] past the end is undefined and deletes nothing
RECURSIVE EvictLoop(_, _, _)
EvictLoop(m, keys, i) ==
    IF i > EVICT_COUNT THEN m
    ELSE EvictLoop(IF i <= Len(keys) THEN MapDelete(m, keys[i]) ELSE m, keys, i + 1)

\* a sweep that already runs when the table is at the limit
NeedsSweepAtLimit(m) == MapSize(m) >= TRACKER_LIMIT

\* if (msgSeqTracker.size > 1000)
NeedsSweep(m) == MapSize(m) > TRACKER_LIMIT

\* a counter that takes 1 for a missing key before incrementing
NextCounterFromOne(m, msgId) == Coalesce(MapGet(m, msgId), 1) + 1

\* the counter stored by the call: (get(msgId) ?? 0) + 1
NextCounter(m, msgId) == Coalesce(MapGet(m, msgId), 0) + 1

\* the table after msgSeqTracker.set(msgId, next)
AfterSet(m, msgId) == MapSet(m, msgId, NextCounter(m, msgId))

\* the table the call leaves behind
AfterCall(m, msgId) ==
    LET m1 == AfterSet(m, msgId)
    IN  IF NeedsSweep(m1) THEN EvictLoop(m1, MapKeys(m1), 1) ELSE m1

\* a result that lags one behind: the counter as it was before the call
SeqResultStale(base, m, msgId) == base + Coalesce(MapGet(m, msgId), 0)

\* return seqBaseTime + next
SeqResult(base, m, msgId) == base + NextCounter(m, msgId)

KeySet(m) == {m[i].key : i \in 1..Len(m)}

\* the effect of one getNextMsgSeq(msgId) call on the table and on its history
TrackerStep(msgId) ==
    LET m1      == AfterSet(msgSeqTracker, msgId)
        m2      == AfterCall(msgSeqTracker, msgId)
        ret     == SeqResult(seqBaseTime, msgSeqTracker, msgId)
        removed == KeySet(m1) \ KeySet(m2)
        isNew   == ~MapHas(msgSeqTracker, msgId)
    IN  /\ msgSeqTracker' = m2
        /\ ncalls' = ncalls + 1
        /\ callsFor' = [callsFor EXCEPT ![msgId] = @ + 1]
        /\ issued' = [issued EXCEPT ![msgId] = @ \cup {ret}]
        /\ insertedAt' = [k \in MsgIds |->
                             IF k \in removed THEN 0
                             ELSE IF k = msgId /\ isNew THEN ncalls + 1
                             ELSE insertedAt[k]]
        /\ evicted' = (evicted \ {msgId}) \cup removed
        /\ sweeps' = IF NeedsSweep(m1) THEN sweeps + 1 ELSE sweeps
        /\ inserts' = IF isNew THEN inserts + 1 ELSE inserts

GetNextMsgSeq(msgId) ==
    /\ ncalls < MaxCalls
    /\ TrackerStep(msgId)
    /\ LET m1 == AfterSet(msgSeqTracker, msgId)
           m2 == AfterCall(msgSeqTracker, msgId)
       IN  last' = [op |-> "getNextMsgSeq", msgId |-> msgId,
                    ret |-> SeqResult(seqBaseTime, msgSeqTracker, msgId),
                    before |-> msgSeqTracker, stamps |-> insertedAt,
                    earlier |-> issued[msgId], wasEvicted |-> msgId \in evicted,
                    swept |-> NeedsSweep(m1), removed |-> KeySet(m1) \ KeySet(m2)]
    /\ UNCHANGED <<seqBaseTime, now, tokVars, sendVars>>

\* a check that still uses the token at expiresAt - 5 minutes
CacheUsableInclusive(cache, t) == cache # Null /\ t <= cache.expiresAt - 5 * 60 * 1000

\* --------------------------------------------------------- getAccessToken
\* cachedToken && Date.now() < cachedToken.expiresAt - 5 * 60 * 1000
CacheUsable(cache, t) == cache # Null /\ t < cache.expiresAt - 5 * 60 * 1000

\* a cache that only serves the pair whose fetch filled it
CacheHitKeyed(cache, t, app) == CacheUsable(cache, t) /\ cache.token = TokenOf(app)

\* the cache check of a call made with (appId, clientSecret): the arguments play no part
CacheHit(cache, t, app) == CacheUsable(cache, t)

\* !data.access_token
NoAccessToken(data) == data.access_token = NoString \/ data.access_token = ""

\* (data.expires_in || 7200): a supplied 0 falls back to 7200
ExpiresAtFalsy(t, data) ==
    t + (IF data.expires_in \in {Undefined, 0} THEN 7200 ELSE data.expires_in) * 1000

\* Date.now() + (data.expires_in ?? 7200) * 1000
ExpiresAt(t, data) == t + Coalesce(data.expires_in, 7200) * 1000

\* a failure path that drops the cached credential
CacheAfterResponseDropping(cache, data, t) ==
    IF NoAccessToken(data) THEN Null
    ELSE [token |-> data.access_token, expiresAt |-> ExpiresAt(t, data)]

\* a store that keeps the cached credential when it expires later
CacheAfterResponseKeepsLater(cache, data, t) ==
    IF NoAccessToken(data) THEN cache
    ELSE IF cache # Null /\ cache.expiresAt > ExpiresAt(t, data) THEN cache
    ELSE [token |-> data.access_token, expiresAt |-> ExpiresAt(t, data)]

\* cachedToken after the response body was read at time t
CacheAfterResponse(cache, data, t) ==
    IF NoAccessToken(data) THEN cache
    ELSE [token |-> data.access_token, expiresAt |-> ExpiresAt(t, data)]

\* a clear that leaves the credential in place
ClearedKeeps(cache) == cache

\* cachedToken after clearTokenCache()
Cleared(cache) == Null

\* calls whose fetch or body read is still pending
Pending == {d \in Callers : pc[d] \in {"fetch", "json"}}

\* a miss that joins a fetch already in flight instead of issuing its own
FetchesOnMissShared(pending) == IF pending > 0 THEN 0 ELSE 1

\* fetch(TOKEN_URL, ...) requests a call issues on a cache miss: its own one,
\* however many fetches of other calls are pending
FetchesOnMiss(pending) == 1

\* the call starts: return the cached token, or issue the fetch and suspend
GetAccessToken(c, app) ==
    /\ pc[c] = "idle"
    /\ IF CacheHit(cachedToken, now, app)
       THEN /\ pc' = [pc EXCEPT ![c] = "done"]
            /\ result' = [result EXCEPT ![c] = cachedToken.token]
            /\ fetches' = [fetches EXCEPT ![c] = 0]
            /\ UNCHANGED <<startedAt, arg>>
       ELSE /\ pc' = [pc EXCEPT ![c] = "fetch"]
            /\ result' = [result EXCEPT ![c] = NoString]
            /\ fetches' = [fetches EXCEPT ![c] = FetchesOnMiss(Cardinality(Pending))]
            /\ startedAt' = [startedAt EXCEPT ![c] = now]
            /\ arg' = [arg EXCEPT ![c] = app]
    /\ sinceClear' = "call"
    /\ last' = [op |-> "getAccessToken", caller |-> c, app |-> app, cacheBefore |-> cachedToken,
                at |-> now, sinceClear |-> sinceClear, pending |-> Cardinality(Pending)]
    /\ UNCHANGED <<cachedToken, stored, now, seqBaseTime, seqVars, sendVars>>

\* await fetch(TOKEN_URL, ...) resolves
FetchResolves(c) ==
    /\ pc[c] = "fetch"
    /\ pc' = [pc EXCEPT ![c] = "json"]
    /\ last' = [op |-> "fetchResolves", caller |-> c, cacheBefore |-> cachedToken, at |-> now]
    /\ UNCHANGED <<cachedToken, result, fetches, startedAt, arg, stored, sinceClear, now, seqBaseTime, seqVars, sendVars>>

\* await fetch(TOKEN_URL, ...) rejects: throw "Network error getting access_token"
FetchRejects(c) ==
    /\ pc[c] = "fetch"
    /\ pc' = [pc EXCEPT ![c] = "failed"]
    /\ startedAt' = [startedAt EXCEPT ![c] = 0]
    /\ arg' = [arg EXCEPT ![c] = NoString]
    /\ last' = [op |-> "fetchRejects", caller |-> c, cacheBefore |-> cachedToken, at |-> now]
    /\ UNCHANGED <<cachedToken, result, fetches, stored, sinceClear, now, seqBaseTime, seqVars, sendVars>>

\* await response.json() rejects: throw "Failed to parse access_token response"
JsonRejects(c) ==
    /\ pc[c] = "json"
    /\ pc' = [pc EXCEPT ![c] = "failed"]
    /\ startedAt' = [startedAt EXCEPT ![c] = 0]
    /\ arg' = [arg EXCEPT ![c] = NoString]
    /\ last' = [op |-> "jsonRejects", caller |-> c, cacheBefore |-> cachedToken, at |-> now]
    /\ UNCHANGED <<cachedToken, result, fetches, stored, sinceClear, now, seqBaseTime, seqVars, sendVars>>

\* await response.json() resolves with data: throw "Failed to get access_token",
\* or store the credential and return its token
JsonResolves(c, data) ==
    /\ pc[c] = "json"
    /\ data.access_token \in {TokenOf(arg[c]), "", NoString}
    /\ cachedToken' = CacheAfterResponse(cachedToken, data, now)
    /\ IF NoAccessToken(data)
       THEN /\ pc' = [pc EXCEPT ![c] = "failed"]
            /\ UNCHANGED <<result, sinceClear, stored>>
       ELSE /\ pc' = [pc EXCEPT ![c] = "done"]
            /\ result' = [result EXCEPT ![c] = cachedToken'.token]
            /\ sinceClear' = IF sinceClear = "cleared" THEN "stored" ELSE sinceClear
            /\ stored' = [token |-> data.access_token, expires_in |-> data.expires_in,
                          at |-> now, startedAt |-> startedAt[c]]
    /\ startedAt' = [startedAt EXCEPT ![c] = 0]
    /\ arg' = [arg EXCEPT ![c] = NoString]
    /\ last' = [op |-> "jsonResolves", caller |-> c, cacheBefore |-> cachedToken, at |-> now,
                data |-> data, startedAt |-> startedAt[c], storedBefore |-> stored]
    /\ UNCHANGED <<fetches, now, seqBaseTime, seqVars, sendVars>>

\* the caller takes the outcome of its call and may call again
Settle(c) ==
    /\ pc[c] \in {"done", "failed"}
    /\ pc' = [pc EXCEPT ![c] = "idle"]
    /\ result' = [result EXCEPT ![c] = NoString]
    /\ fetches' = [fetches EXCEPT ![c] = 0]
    /\ UNCHANGED <<startedAt, arg>>
    /\ last' = [op |-> "settle", caller |-> c, cacheBefore |-> cachedToken, at |-> now]
    /\ UNCHANGED <<cachedToken, stored, sinceClear, now, seqBaseTime, seqVars, sendVars>>

\* --------------------------------------------------------- clearTokenCache
ClearTokenCache ==
    /\ cachedToken' = Cleared(cachedToken)
    /\ sinceClear' = "cleared"
    /\ stored' = NoStore
    /\ last' = [op |-> "clearTokenCache", cacheBefore |-> cachedToken, at |-> now]
    /\ UNCHANGED <<pc, result, fetches, startedAt, arg, now, seqBaseTime, seqVars, sendVars>>

\* time passes
Tick ==
    /\ \E t \in ClockValues : t > now /\ now' = t
    /\ last' = [op |-> "tick", cacheBefore |-> cachedToken, at |-> now]
    /\ UNCHANGED <<tokVars, seqBaseTime, seqVars, sendVars>>

\* ------------------------------------------------------------ apiRequest
\* JSON.stringify(data)
Stringify(data) == [json |-> data]

\* an API error that never quotes the platform's message
ApiOutcomeNoMessage(ok, data) ==
    IF ~ok
    THEN IF data = Null THEN [kind |-> "type"]
         ELSE [kind |-> "api", detail |-> Stringify(data)]
    ELSE [kind |-> "body", body |-> data]

\* how apiRequest ends once the body is parsed (api.ts:127-132); reading
\* error.message of a null body throws a TypeError
ApiOutcome(ok, data) ==
    IF ~ok
    THEN IF data = Null THEN [kind |-> "type"]
         ELSE [kind |-> "api",
               detail |-> IF data.message = NoString THEN Stringify(data)
                          ELSE [text |-> data.message]]
    ELSE [kind |-> "body", body |-> data]

\* -------------------------------------------------------- send operations
\* a test that takes "" for a message id
TruthyDefined(msgId) == msgId # Undefined

\* msgId ? ... : ...
Truthy(msgId) == msgId # Undefined /\ msgId # EmptyMsgId

\* msgId ? getNextMsgSeq(msgId) : 1
MsgSeqFor(base, m, msgId) == IF Truthy(msgId) THEN SeqResult(base, m, msgId) ELSE 1

\* the request body of the four send operations
SendBody(kind, msgId, msgSeq, fileInfo) ==
    [path |-> IF kind \in {"c2c", "c2cMedia"} THEN "/v2/users/messages" ELSE "/v2/groups/messages",
     msg_type |-> IF kind \in MediaKinds THEN 7 ELSE 0,
     msg_seq |-> msgSeq,
     msg_id |-> IF Truthy(msgId) THEN msgId ELSE Undefined,
     file_info |-> fileInfo]

\* the request body of uploadC2CMedia / uploadGroupMedia for an image
UploadBody(kind, url) ==
    [path |-> IF kind = "c2cImage" THEN "/v2/users/files" ELSE "/v2/groups/files",
     file_type |-> 1, url |-> url, srv_send_msg |-> FALSE]

\* a send that passes the image URL on instead of the uploaded reference
FileInfoFromUrl(uploadResult, url) == url

\* uploadResult.file_info, the reference passed to the media send
FileInfoFor(uploadResult, url) == uploadResult.file_info

\* message ids are opaque strings: the k-th id a run uses for the first time is named k
InOrder(msgId) == msgId \in MsgIds => msgId <= Cardinality({k \in MsgIds : callsFor[k] > 0}) + 1

\* ops with one operation more, one less, and one replaced
Started(o) == ops (+) SetToBag({o})
Ended(o) == ops (-) SetToBag({o})
Moved(o, p) == Ended(o) (+) SetToBag({p})

\* is the request of the latest reply send still in flight
ReplyInFlight(r) ==
    /\ r # NoReply
    /\ \E o \in BagToSet(ops) :
          /\ o.pc \in {"fetch", "json"} /\ o.cont = NoCont
          /\ o.req.msg_id = r.msgId /\ o.req.msg_seq = r.seq

\* the synchronous part of a send: take the msg_seq, build the body, issue the request;
\* rest is what remains in progress of ops, opReqs the requests the operation issued
\* before, upload what its upload returned
IssueSend(op, kind, msgId, fileInfo, rest, opReqs, upload) ==
    LET seq  == MsgSeqFor(seqBaseTime, msgSeqTracker, msgId)
        body == SendBody(kind, msgId, seq, fileInfo)
    IN  /\ InOrder(msgId)
        /\ IF Truthy(msgId)
           THEN /\ ncalls < MaxReplies
                /\ TrackerStep(msgId)
                /\ prevReply' = [msgId |-> msgId, seq |-> seq]
           ELSE UNCHANGED <<seqVars, prevReply>>
        /\ ops' = rest (+) SetToBag({[pc |-> "fetch", ok |-> FALSE, reqs |-> 1,
                              opReqs |-> opReqs + 1,
                              seqCalls |-> IF Truthy(msgId) THEN 1 ELSE 0,
                              req |-> [msg_id |-> body.msg_id, msg_seq |-> body.msg_seq],
                              cont |-> NoCont, upload |-> NoUpload]})
        /\ last' = [op |-> op, kind |-> kind, msgId |-> msgId, req |-> body,
                    opReqs |-> opReqs + 1, upload |-> upload,
                    trackerBefore |-> msgSeqTracker, ncallsBefore |-> ncalls,
                    prevReply |-> prevReply, prevInFlight |-> ReplyInFlight(prevReply)]
        /\ UNCHANGED <<seqBaseTime, now, tokVars>>

\* sendC2CMessage, sendGroupMessage, sendC2CMediaMessage, sendGroupMediaMessage
SendMessage(kind, msgId, fileInfo) ==
    /\ BagCardinality(ops) < MaxInFlight
    /\ kind \in MediaKinds <=> fileInfo # NoString
    /\ IssueSend("send", kind, msgId, fileInfo, ops, 0, NoUpload)

\* sendC2CImageMessage, sendGroupImageMessage: issue the upload request
SendImage(kind, msgId) ==
    /\ BagCardinality(ops) < MaxImages
    /\ ops' = Started([pc |-> "fetch", ok |-> FALSE, reqs |-> 1,
                         opReqs |-> 1, seqCalls |-> 0, req |-> NoRequest,
                         cont |-> [kind |-> IF kind = "c2cImage" THEN "c2cMedia" ELSE "groupMedia",
                                   msgId |-> msgId],
                         upload |-> NoUpload])
    /\ last' = [op |-> "upload", kind |-> kind, msgId |-> msgId,
                req |-> UploadBody(kind, ImageUrl), opReqs |-> 1,
                trackerBefore |-> msgSeqTracker]
    /\ UNCHANGED <<prevReply, seqVars, seqBaseTime, now, tokVars>>

\* the apiRequest call of o ends in an error, and with it the operation
ApiFails(o, op, outcome, data) ==
    /\ ops' = Ended(o)
    /\ last' = [op |-> op, req |-> o.req, ok |-> o.ok, data |-> data,
                outcome |-> outcome, ended |-> "failed", reqs |-> o.reqs,
                opReqs |-> o.opReqs, seqCalls |-> o.seqCalls, uploading |-> o.cont # NoCont,
                trackerBefore |-> msgSeqTracker]
    /\ UNCHANGED <<prevReply, seqVars, seqBaseTime, now, tokVars>>

\* await fetch(url, options) rejects: throw "Network error"
ApiFetchRejects(o) ==
    /\ o.pc = "fetch"
    /\ ApiFails(o, "apiFetchRejects", [kind |-> "transport"], Null)

\* await fetch(url, options) resolves with a response whose status is 2xx (ok) or not
ApiFetchResolves(o, ok) ==
    /\ o.pc = "fetch"
    /\ ops' = Moved(o, [o EXCEPT !.pc = "json", !.ok = ok])
    /\ last' = [op |-> "apiFetchResolves", ok |-> ok]
    /\ UNCHANGED <<prevReply, seqVars, seqBaseTime, now, tokVars>>

\* await res.json() rejects: throw "Failed to parse response"
ApiJsonRejects(o) ==
    /\ o.pc = "json"
    /\ ApiFails(o, "apiJsonRejects", [kind |-> "decode"], Null)

\* await res.json() resolves with data: throw "API Error" when !res.ok, else
\* return data; a send operation returns it, an image operation goes on
ApiJsonResolves(o, data) ==
    /\ o.pc = "json"
    /\ LET outcome == ApiOutcome(o.ok, data)
       IN  IF outcome.kind # "body"
           THEN ApiFails(o, "apiJsonResolves", outcome, data)
           ELSE /\ ops' = IF o.cont = NoCont THEN Ended(o)
                          ELSE Moved(o, [o EXCEPT !.pc = "uploaded", !.ok = FALSE,
                                                  !.upload = data])
                /\ last' = [op |-> "apiJsonResolves",
                            ok |-> o.ok, data |-> data, outcome |-> outcome,
                            ended |-> IF o.cont = NoCont THEN "done" ELSE "uploaded",
                            reqs |-> o.reqs, opReqs |-> o.opReqs, seqCalls |-> o.seqCalls,
                            uploading |-> o.cont # NoCont, trackerBefore |-> msgSeqTracker]
                /\ UNCHANGED <<prevReply, seqVars, seqBaseTime, now, tokVars>>

\* the image operation resumes after the upload: read uploadResult.file_info
\* (a TypeError when the upload returned null) and call the media send
ImageSends(o) ==
    /\ o.pc = "uploaded"
    /\ IF o.upload = Null
       THEN /\ ops' = Ended(o)
            /\ last' = [op |-> "imageFails", outcome |-> [kind |-> "type"],
                        ended |-> "failed", opReqs |-> o.opReqs, seqCalls |-> o.seqCalls,
                        trackerBefore |-> msgSeqTracker]
            /\ UNCHANGED <<prevReply, seqVars, seqBaseTime, now, tokVars>>
       ELSE IssueSend("imageSend", o.cont.kind, o.cont.msgId,
                      FileInfoFor(o.upload, ImageUrl), Ended(o), o.opReqs, o.upload)

\* ------------------------------------------------------------------ init
NoCall == [op |-> "none"]

Init ==
    /\ \E t0 \in StartupTimes : now = t0 /\ seqBaseTime = SeqBase(t0)
    /\ msgSeqTracker = <<>>
    /\ ncalls = 0
    /\ callsFor = [k \in MsgIds |-> 0]
    /\ issued = [k \in MsgIds |-> {}]
    /\ insertedAt = [k \in MsgIds |-> 0]
    /\ evicted = {}
    /\ sweeps = 0
    /\ inserts = 0
    /\ last = NoCall
    /\ cachedToken = Null
    /\ pc = [c \in Callers |-> "idle"]
    /\ result = [c \in Callers |-> NoString]
    /\ fetches = [c \in Callers |-> 0]
    /\ startedAt = [c \in Callers |-> 0]
    /\ arg = [c \in Callers |-> NoString]
    /\ stored = NoStore
    /\ sinceClear = "none"
    /\ ops = EmptyBag
    /\ prevReply = NoReply

vars == <<seqBaseTime, now, seqVars, tokVars, sendVars, last>>

NextSeq == \E msgId \in MsgIds : GetNextMsgSeq(msgId)

SpecSeq == Init /\ [][NextSeq]_vars

NextToken ==
    \/ \E c \in Callers, app \in Apps : GetAccessToken(c, app)
    \/ \E c \in Callers : FetchResolves(c)
    \/ \E c \in Callers : FetchRejects(c)
    \/ \E c \in Callers : JsonRejects(c)
    \/ \E c \in Callers, data \in TokenResponses : JsonResolves(c, data)
    \/ \E c \in Callers : Settle(c)
    \/ ClearTokenCache
    \/ Tick

SpecToken == Init /\ [][NextToken]_vars

NextSend ==
    \/ \E kind \in SendKinds, msgId \in MsgIdArgs, fi \in FileInfos \cup {NoString} :
           SendMessage(kind, msgId, fi)
    \/ \E o \in BagToSet(ops) : ApiFetchRejects(o)
    \/ \E o \in BagToSet(ops), ok \in BOOLEAN : ApiFetchResolves(o, ok)
    \/ \E o \in BagToSet(ops) : ApiJsonRejects(o)
    \/ \E o \in BagToSet(ops), data \in SendReplies : ApiJsonResolves(o, data)

SpecSend == Init /\ [][NextSend]_vars

NextImage ==
    \/ \E kind \in ImageKinds, msgId \in ImageMsgIdArgs : SendImage(kind, msgId)
    \/ \E o \in BagToSet(ops) : ApiFetchRejects(o)
    \/ \E o \in BagToSet(ops), ok \in BOOLEAN : ApiFetchResolves(o, ok)
    \/ \E o \in BagToSet(ops) : ApiJsonRejects(o)
    \/ \E o \in BagToSet(ops), data \in ApiBodies : ApiJsonResolves(o, data)
    \/ \E o \in BagToSet(ops) : ImageSends(o)

SpecImage == Init /\ [][NextImage]_vars

\* ------------------------------------------------- claims: msg_seq tracker
IsSeqCall == last.op = "getNextMsgSeq"

\* msgIds used so far in the run
DistinctUsed == {k \in MsgIds : callsFor[k] > 0}

\* C1: the n-th getNextMsgSeq call made with a key returns seqBaseTime + n,
\* whatever calls for other keys come in between.
C1_NthCallReturnsBasePlusN ==
    IsSeqCall => last.ret = seqBaseTime + callsFor[last.msgId]

\* C2: a getNextMsgSeq call for a key returns a value strictly greater than
\* every value returned earlier for that key.
C2_LaterCallReturnsGreater ==
    IsSeqCall => \A v \in last.earlier : last.ret > v

\* C3: the values returned for one msgId are pairwise distinct: as many
\* different values were issued for a key as calls were made with it.
C3_IssuedValuesDistinct ==
    \A k \in MsgIds : Cardinality(issued[k]) = callsFor[k]

\* C8: a call that leaves more than TRACKER_LIMIT keys in the table removes
\* exactly the EVICT_COUNT keys inserted earliest (by first insertion, not by
\* last use); the key of the call is not among them, every remaining key
\* keeps its counter, and a call that does not exceed the limit removes nothing.
C8_SweepRemovesEarliestInserted ==
    IsSeqCall =>
        LET k        == last.msgId
            pre      == last.before
            held     == KeySet(pre) \cup {k}
            stamp(x) == IF x = k /\ x \notin KeySet(pre) THEN ncalls ELSE last.stamps[x]
            earliest == {x \in held :
                            Cardinality({y \in held : stamp(y) < stamp(x)}) < EVICT_COUNT}
            gone     == IF Cardinality(held) > TRACKER_LIMIT THEN earliest ELSE {}
        IN  /\ KeySet(msgSeqTracker) = held \ gone
            /\ last.removed = gone
            /\ Cardinality(held) > TRACKER_LIMIT => Cardinality(gone) = EVICT_COUNT
            /\ k \notin gone
            /\ \A x \in (held \ gone) \ {k} : MapGet(msgSeqTracker, x) = MapGet(pre, x)
            /\ \A i, j \in 1..Len(msgSeqTracker) :
                   i < j => insertedAt[msgSeqTracker[i].key] < insertedAt[msgSeqTracker[j].key]

\* C8 witness: a sweep removed a key that had been used again after a
\* surviving key was inserted, and a survivor kept a counter above 1.
C8_Witness ==
    /\ IsSeqCall /\ last.swept
    /\ \E x \in last.removed : MapGet(last.before, x) >= 2
    /\ \E y \in KeySet(msgSeqTracker) \ {last.msgId} : MapGet(msgSeqTracker, y) >= 2

\* C9 (as stated): a run that uses more than TRACKER_LIMIT distinct keys
\* triggers exactly one eviction sweep.
C9_ExactlyOneSweep ==
    Cardinality(DistinctUsed) > TRACKER_LIMIT => sweeps = 1

\* C9 (amended): a run that uses more than TRACKER_LIMIT distinct keys
\* triggers at least one sweep, and exactly one precisely while no more than
\* TRACKER_LIMIT + EVICT_COUNT calls have inserted a key into the table.
C9_SweepCount ==
    Cardinality(DistinctUsed) > TRACKER_LIMIT =>
        /\ sweeps >= 1
        /\ sweeps = 1 <=> inserts <= TRACKER_LIMIT + EVICT_COUNT

\* C9 witness: one sweep so far, and keys were inserted again after it.
C9_Witness ==
    /\ Cardinality(DistinctUsed) > TRACKER_LIMIT
    /\ sweeps = 1
    /\ inserts = TRACKER_LIMIT + EVICT_COUNT

IsTokenStart == last.op = "getAccessToken"

\* the response read by the last step carried no usable access_token
LastResponseLacksToken ==
    last.op = "jsonResolves" /\ last.data.access_token \in {"", NoString}

\* the last step ended a getAccessToken call in an error
IsTokenFailure ==
    last.op \in {"fetchRejects", "jsonRejects"} \/ LastResponseLacksToken

\* the last step stored a fetched credential
IsTokenStored ==
    last.op = "jsonResolves" /\ last.data.access_token \in Tokens

\* C4: a getAccessToken call issues a fetch exactly when, at its start, the
\* cache is empty or now >= expiresAt - 5 minutes; otherwise it returns the
\* cached token, issues no fetch and leaves the cache as it was; no call
\* issues more than one fetch.
C4_FetchIffCacheStale ==
    /\ \A c \in Callers :
           /\ fetches[c] <= 1
           /\ pc[c] \in {"fetch", "json"} => fetches[c] = 1
    /\ IsTokenStart =>
           LET c     == last.caller
               cb    == last.cacheBefore
               stale == cb = Null \/ last.at >= cb.expiresAt - 300000
           IN  /\ fetches[c] = 1 <=> stale
               /\ stale => pc[c] = "fetch" /\ cachedToken = cb
               /\ ~stale => /\ pc[c] = "done"
                            /\ result[c] = cb.token
                            /\ cachedToken = cb

\* C4 witness: a call starts exactly when now = expiresAt - 5 minutes.
C4_Witness ==
    /\ IsTokenStart
    /\ last.cacheBefore # Null
    /\ last.at = last.cacheBefore.expiresAt - 300000
    /\ pc[last.caller] = "fetch"

\* C5 (as stated): the first getAccessToken call to start after
\* clearTokenCache performs a fetch, whatever happened in between.
C5_CallAfterClearFetches ==
    (IsTokenStart /\ last.sinceClear \in {"cleared", "stored"}) =>
        pc[last.caller] = "fetch"

\* C5 (amended): the first getAccessToken call to start after
\* clearTokenCache performs a fetch, provided no call in flight stored a
\* credential between the clear and the start of that call.
C5_CallAfterClearFetchesUnlessStored ==
    (IsTokenStart /\ last.sinceClear = "cleared") =>
        /\ pc[last.caller] = "fetch"
        /\ fetches[last.caller] = 1

\* C5 witness: a call starts after a clear while another call, begun before
\* the clear, is still in flight.
C5_Witness ==
    /\ IsTokenStart /\ last.sinceClear = "cleared"
    /\ \E c \in Callers \ {last.caller} : pc[c] \in {"fetch", "json"}

\* C6: a getAccessToken call that fails (fetch rejected, body unparseable, or
\* no access_token in the body) ends in an error and leaves cachedToken
\* exactly as it was.
C6_FailureLeavesCache ==
    IsTokenFailure =>
        /\ pc[last.caller] = "failed"
        /\ result[last.caller] = NoString
        /\ cachedToken = last.cacheBefore

\* C6 witness: a response without access_token arrives while a credential is cached.
C6_Witness ==
    /\ LastResponseLacksToken
    /\ last.cacheBefore # Null

\* C7: a successful fetch replaces the cache with the returned token and
\* expiresAt = (time the response was processed) + expires_in * 1000, with
\* 7200 for expires_in only when the response has none, and returns the token.
C7_SuccessReplacesCache ==
    IsTokenStored =>
        LET d    == last.data
            secs == IF d.expires_in = Undefined THEN 7200 ELSE d.expires_in
        IN  /\ cachedToken = [token |-> d.access_token, expiresAt |-> last.at + secs * 1000]
            /\ result[last.caller] = d.access_token
            /\ pc[last.caller] = "done"

\* C7 witness: a response with expires_in = 0 is processed later than the
\* call started and replaces a cached credential.
C7_Witness ==
    /\ IsTokenStored
    /\ last.data.expires_in = 0
    /\ last.cacheBefore # Null
    /\ last.at > last.startedAt

\* ------------------------------------------- claims: second group (C11-C20)
\* C11: calls that start on a cache miss while other calls are still waiting
\* for their fetch each issue a fetch of their own: as many fetches are
\* outstanding as calls are waiting.
C11_EachMissFetches ==
    /\ Cardinality({c \in Pending : fetches[c] = 1}) = Cardinality(Pending)
    /\ (IsTokenStart /\ last.pending > 0 /\ ~CacheUsable(last.cacheBefore, last.at)) =>
           /\ pc[last.caller] = "fetch"
           /\ fetches[last.caller] = 1
           /\ Cardinality(Pending) = last.pending + 1

\* C11 witness: every caller started on a miss and none of the fetches has completed.
C11_Witness ==
    /\ IsTokenStart
    /\ last.pending = NumCallers - 1
    /\ \A c \in Callers : pc[c] = "fetch"

\* C17: between calls the table holds at most TRACKER_LIMIT keys, right after
\* a sweep it holds exactly TRACKER_LIMIT + 1 - EVICT_COUNT keys, and every
\* stored counter is an integer >= 1.
C17_TableBounded ==
    /\ MapSize(msgSeqTracker) <= TRACKER_LIMIT
    /\ (IsSeqCall /\ last.swept) =>
           MapSize(msgSeqTracker) = TRACKER_LIMIT + 1 - EVICT_COUNT
    /\ \A i \in 1..Len(msgSeqTracker) :
           msgSeqTracker[i].val \in Int /\ msgSeqTracker[i].val >= 1

\* C17 witness: a second sweep has just run and a surviving counter is above 1.
C17_Witness ==
    /\ IsSeqCall /\ last.swept /\ sweeps >= 2
    /\ \E i \in 1..Len(msgSeqTracker) : msgSeqTracker[i].val >= 2

\* C18: while the cached token is inside its validity window, a call made
\* with a pair other than the one whose fetch produced the token gets that
\* token and issues no fetch.
C18_CacheSharedAcrossPairs ==
    (/\ IsTokenStart
     /\ last.cacheBefore # Null
     /\ last.at < last.cacheBefore.expiresAt - 300000
     /\ last.cacheBefore.token # TokenOf(last.app)) =>
        /\ pc[last.caller] = "done"
        /\ result[last.caller] = last.cacheBefore.token
        /\ fetches[last.caller] = 0
        /\ cachedToken = last.cacheBefore

\* C18 witness: a call for appB is served the valid token fetched for appA.
C18_Witness ==
    /\ IsTokenStart
    /\ last.app = "appB"
    /\ last.cacheBefore # Null
    /\ last.cacheBefore.token = TokenOf("appA")
    /\ result[last.caller] = TokenOf("appA")

\* C20: the cache holds the credential of the successful fetch that completed
\* last (since the last clear), whichever call started first and whichever
\* credential expires later.
C20_LastCompletionWins ==
    stored # NoStore =>
        /\ cachedToken # Null
        /\ cachedToken.token = stored.token
        /\ cachedToken.expiresAt =
               stored.at + (IF stored.expires_in = Undefined THEN 7200 ELSE stored.expires_in) * 1000

\* C20 witness: all fetches have finished; the one that completed last had
\* started first and replaced a credential with a later expiresAt.
C20_Witness ==
    /\ IsTokenStored
    /\ Pending = {}
    /\ last.cacheBefore # Null
    /\ last.storedBefore # NoStore
    /\ last.startedAt < last.storedBefore.startedAt
    /\ cachedToken.expiresAt < last.cacheBefore.expiresAt

\* ------------------------------------------------------ claims: apiRequest
\* an apiRequest call has ended at the last step
IsApiEnd == last.op \in {"apiFetchRejects", "apiJsonRejects", "apiJsonResolves"}

\* a response arrived for the call that ended at the last step
IsApiAnswered == last.op \in {"apiJsonRejects", "apiJsonResolves"}

\* C12: every apiRequest call issues exactly one HTTP request and ends in one of
\* four outcomes, decided in this order: a transport error when the network call
\* does not complete, a decode error when the body cannot be parsed, an API
\* error when the body parsed and the status is not 2xx, else the parsed body.
C12_OneOfFourOutcomes ==
    IsApiEnd =>
        /\ last.reqs = 1
        /\ last.outcome.kind \in {"body", "transport", "decode", "api"}
        /\ last.op = "apiFetchRejects" <=> last.outcome.kind = "transport"
        /\ last.op = "apiJsonRejects" <=> last.outcome.kind = "decode"
        /\ (last.op = "apiJsonResolves" /\ ~last.ok) <=> last.outcome.kind = "api"
        /\ (last.op = "apiJsonResolves" /\ last.ok) <=> last.outcome.kind = "body"

\* C13 as stated: a response with a failure status always ends the call with
\* the API error carrying the platform's message, never with a decode error
\* and never with a return.
C13_FailureStatusGivesApiError ==
    (IsApiAnswered /\ ~last.ok) =>
        /\ last.outcome.kind = "api"
        /\ last.data # Null
        /\ last.data.message # NoString
        /\ last.outcome.detail = [text |-> last.data.message]

\* C13 amended: a response with a failure status never lets the call return;
\* when its body parses to a value other than null the call ends with the API
\* error, carrying the body's message if it has one and the JSON text of the
\* body otherwise; when the body cannot be parsed the call ends with the decode
\* error, and when the body is null with a TypeError.
C13_FailureStatusByBody ==
    (IsApiAnswered /\ ~last.ok) =>
        /\ last.ended = "failed"
        /\ last.op = "apiJsonRejects" => last.outcome.kind = "decode"
        /\ (last.op = "apiJsonResolves" /\ last.data = Null) => last.outcome.kind = "type"
        /\ (last.op = "apiJsonResolves" /\ last.data # Null) =>
               /\ last.outcome.kind = "api"
               /\ last.outcome.detail =
                      IF last.data.message # NoString THEN [text |-> last.data.message]
                      ELSE Stringify(last.data)

\* C13 witness: a failure status with body {message: "invalid param"} has ended
\* a call with the API error carrying "invalid param".
C13_Witness ==
    /\ IsApiAnswered
    /\ ~last.ok
    /\ last.data # Null
    /\ last.data.message = "invalid param"
    /\ last.outcome = [kind |-> "api", detail |-> [text |-> "invalid param"]]

\* ------------------------------------------------ claims: image operations
\* C16: an image operation issues its send only after its upload returned, with
\* the file_info the upload returned; when the upload fails the operation ends
\* with that error, having issued one request and left the sequence table alone;
\* when the send fails the operation ends with that error after two requests.
C16_UploadThenSend ==
    /\ last.op = "imageSend" =>
           /\ last.upload \in ApiBodies \ {Null}
           /\ last.req.file_info = last.upload.file_info
           /\ last.req.msg_type = 7
           /\ last.opReqs = 2
    /\ (IsApiEnd /\ last.uploading) =>
           \/ last.ended = "uploaded" /\ last.outcome.kind = "body"
           \/ /\ last.ended = "failed"
              /\ last.outcome.kind \in {"transport", "decode", "api", "type"}
              /\ last.opReqs = 1
              /\ last.seqCalls = 0
    /\ (IsApiEnd /\ ~last.uploading /\ last.outcome.kind # "body") =>
           /\ last.ended = "failed"
           /\ last.opReqs = 2

\* C16 witness: the send of an image operation has been issued with the
\* file_info its upload returned.
C16_Witness ==
    /\ last.op = "imageSend"
    /\ last.upload # Null
    /\ last.upload.file_info \in FileInfos
    /\ last.req.file_info = last.upload.file_info

\* ------------------------------------------------- claims: send operations
\* the last step issued the request of a send
IsSendIssue == last.op \in {"send", "imageSend"}

\* the last step issued the request of a reply send
IsReplyIssue == IsSendIssue /\ Truthy(last.msgId)

\* C14: when a reply send follows a reply send with the same msgId, with no
\* send for another key in between, through whichever send operation and
\* whether or not the first request has completed, the two requests carry
\* seqBaseTime + k and seqBaseTime + k + 1 for some k >= 1.
C14_SuccessiveSendsCountUp ==
    (IsReplyIssue /\ last.prevReply # NoReply /\ last.prevReply.msgId = last.msgId) =>
        /\ last.req.msg_id = last.msgId
        /\ last.prevReply.seq >= seqBaseTime + 1
        /\ last.req.msg_seq = last.prevReply.seq + 1

\* C14 witness: a media send follows a send with the same msgId whose request
\* is still in flight.
C14_Witness ==
    /\ IsReplyIssue
    /\ last.kind \in MediaKinds
    /\ last.prevReply # NoReply
    /\ last.prevReply.msgId = last.msgId
    /\ last.prevInFlight
    /\ last.req.msg_seq = seqBaseTime + 2

\* C15: a send called with no message id, absent or empty, issues a request
\* with msg_seq = 1 and no msg_id and leaves the sequence table as it was.
C15_NoMsgIdSendsOne ==
    (IsSendIssue /\ last.msgId \in {Undefined, EmptyMsgId}) =>
        /\ last.req.msg_seq = 1
        /\ last.req.msg_id = Undefined
        /\ msgSeqTracker = last.trackerBefore
        /\ ncalls = last.ncallsBefore

\* C15 witness: a send with the empty string for msgId has been issued while
\* the sequence table held a counter.
C15_Witness ==
    /\ IsSendIssue
    /\ last.msgId = EmptyMsgId
    /\ last.req.msg_seq = 1
    /\ MapSize(last.trackerBefore) > 0

\* C19: when the request of a reply send with msgId m fails, the counter for m
\* is still advanced: the next send for m will carry a greater msg_seq than the
\* failed one, so the failed value is not used again.
C19_FailedValueNotReused ==
    (IsApiEnd /\ last.ended = "failed" /\ last.req # NoRequest /\ last.req.msg_id # Undefined) =>
        MsgSeqFor(seqBaseTime, msgSeqTracker, last.req.msg_id) > last.req.msg_seq

====
